---------------------------- MODULE Spec2Model ----------------------------
(***************************************************************************)
(* A model of fdb.py: the FileDB ingestion pipeline (add, _add_entry,      *)
(* _add_attrs, _add_log, close) over an SQLite catalog and a sharded       *)
(* object store, and the DBRequestHandler range server.                    *)
(*                                                                         *)
(* Text the code slices or tokenizes (relative paths, file ids, tags,      *)
(* attribute values) is a sequence of one-character strings.  File         *)
(* content is a sequence of bytes.  Python's None is the string "None"     *)
(* where the value is otherwise text, and 0 where it is otherwise an       *)
(* entryId (SQLite rowids start at 1).                                     *)
(***************************************************************************)
EXTENDS Integers, Sequences, FiniteSets, TLC

\* ------------------------------------------------------------------ bounds
\* Files given to one `add` command (length of the batch).
MaxBatch == 2
\* Length of the stored file the server is asked for.
MaxLen == 3
\* Files given to each of two concurrent `add` commands.
MaxConcBatch == 1

\* The fdb.py invocations of the model.
Procs == {1, 2}

None == "None"
NoEid == 0

\* ------------------------------------------------------------------- text
UpperOf == [c \in {"a", "b", "j", "m", "x"} |->
              CASE c = "a" -> "A" [] c = "b" -> "B" [] c = "j" -> "J"
                [] c = "m" -> "M" [] c = "x" -> "X"]

\* str.lower() on one character.
LowerChar(c) ==
  IF \E l \in DOMAIN UpperOf : UpperOf[l] = c
  THEN CHOOSE l \in DOMAIN UpperOf : UpperOf[l] = c
  ELSE c

lower(s) == [i \in 1..Len(s) |-> LowerChar(s[i])]

\* \w of the WORDS pattern: letters, digits and underscore.
IsWordChar(c) == c \notin {"/", ".", " ", "-"}

\* WORDS.findall(text): the maximal runs of word characters, in order.
RECURSIVE FindWords(_, _)
FindWords(text, run) ==
  IF text = <<>> THEN (IF run = <<>> THEN <<>> ELSE <<run>>)
  ELSE IF IsWordChar(Head(text)) THEN FindWords(Tail(text), Append(run, Head(text)))
  ELSE (IF run = <<>> THEN <<>> ELSE <<run>>) \o FindWords(Tail(text), <<>>)

get_words(text) ==
  LET ws == FindWords(text, <<>>) IN [i \in 1..Len(ws) |-> lower(ws[i])]

\* os.path.splitext: the extension starts at the last dot of the last path
\* component, unless that component has only dots before it.
LastSlash(p) ==
  IF \E i \in 1..Len(p) : p[i] = "/"
  THEN CHOOSE i \in 1..Len(p) : p[i] = "/" /\ \A j \in (i+1)..Len(p) : p[j] # "/"
  ELSE 0

ExtIndex(p) ==
  LET b == LastSlash(p) + 1
      dots == {i \in b..Len(p) : p[i] = "." /\ \E j \in b..(i-1) : p[j] # "."}
  IN IF dots = {} THEN 0 ELSE CHOOSE i \in dots : \A j \in dots : j <= i

splitext(p) ==
  LET i == ExtIndex(p)
  IN IF i = 0 THEN <<p, <<>>>> ELSE <<SubSeq(p, 1, i-1), SubSeq(p, i, Len(p))>>

\* mimetypes.guess_type: by extension, case-insensitively.
guess_type(p) ==
  LET ext == lower(splitext(p)[2])
  IN CASE ext = <<".", "j">> -> "image/jpeg"
       [] ext = <<".", "m">> -> "video/mp4"
       [] OTHER -> None

startswith(s, prefix) ==
  CASE prefix = "image/" -> s \in {"image/jpeg"}
    [] prefix = "video/" -> s \in {"video/mp4"}
    [] prefix = "audio/" -> s \in {"audio/mpeg"}

Digit == <<"0", "1", "2", "3", "4", "5", "6", "7", "8", "9">>

\* str() of a non-negative integer.
RECURSIVE str(_)
str(n) == IF n < 10 THEN <<Digit[n+1]>> ELSE str(n \div 10) \o <<Digit[(n % 10) + 1]>>

\* time2str(time.gmtime(t)): the formatted UTC time of epoch second t.
time2str(t) == <<"T">> \o str(t)

\* hashlib.sha1 over the whole content, taken as collision-free.
get_filehash(data) == <<"sha1", data>>

\* ---------------------------------------------------------- python values
PyInt(n) == [kind |-> "int", int |-> n, text |-> <<>>]
PyText(s) == [kind |-> "text", int |-> 0, text |-> s]

\* str(value) as _add_attrs applies it to every attribute value.
PyStr(v) == IF v.kind = "int" THEN str(v.int) ELSE v.text

Attr(n, v) == [name |-> n, value |-> v]

\* ------------------------------------------------------------ source files
\* The source tree offered to `add`.  attrs1 and thumbnail are what the
\* prober for the file's type (get_attrs_image / get_attrs_video,
\* get_thumb_image / get_thumb_video) returns for it; thumbnail <<>> is None.
Files == <<
  [relpath |-> <<"A", "/", "b", ".", "J">>, mtime |-> 1, ctime |-> 3, data |-> <<1>>,
   attrs1 |-> <<Attr("width", PyInt(2)), Attr("height", PyInt(2))>>,
   thumbnail |-> <<7>>],
  [relpath |-> <<"b", ".", "j">>, mtime |-> 2, ctime |-> 3, data |-> <<1>>,
   attrs1 |-> <<Attr("width", PyInt(2)), Attr("height", PyInt(2)),
                Attr("timestamp", PyText(<<"t", "s">>))>>,
   thumbnail |-> <<>>],
  [relpath |-> <<"A", "/", "b", ".", "J">>, mtime |-> 1, ctime |-> 4, data |-> <<2>>,
   attrs1 |-> <<>>,
   thumbnail |-> <<>>],
  [relpath |-> <<"a", " ", "a", ".", "m">>, mtime |-> 2, ctime |-> 4, data |-> <<1, 2>>,
   attrs1 |-> <<Attr("duration", PyInt(0)), Attr("width", PyInt(0)), Attr("height", PyInt(0)),
                Attr("timestamp", PyText(<<"T", "1">>))>>,
   thumbnail |-> <<8>>],
  [relpath |-> <<"m">>, mtime |-> 1, ctime |-> 5, data |-> <<>>,
   attrs1 |-> <<Attr("width", PyInt(1))>>,
   thumbnail |-> <<9>>]
>>

FileIds == DOMAIN Files

\* Tags given with -t on the command line.
TagChoices == {<<>>, << <<"b">>, <<"X">> >>}

RECURSIVE SeqsUpTo(_, _)
SeqsUpTo(S, n) ==
  IF n = 0 THEN {<<>>}
  ELSE LET shorter == SeqsUpTo(S, n - 1)
       IN shorter \cup {Append(q, x) : q \in {r \in shorter : Len(r) = n - 1}, x \in S}

Batches == SeqsUpTo(FileIds, MaxBatch) \ {<<>>}

\* ------------------------------------------------------------------ state
VARIABLES
  active,     \* the invocations that run in this behaviour
  strict,     \* FileDB.strict of each invocation (-s)
  dryrun,     \* FileDB.dryrun of each invocation (-n)
  tags,       \* the -t tags of each invocation
  batch,      \* the arguments of `add` each invocation has not yet processed
  pc,         \* where each invocation stands
  loc,        \* the locals of the add call in progress
  out,        \* how each finished add call ended
  committed,  \* metadata.db as committed: what any new connection reads
  pending,    \* the tables as the open write transaction sees them
  writer,     \* the invocation holding the open write transaction, or 0
  nuuid,      \* uuid4 tokens drawn so far
  dirs,       \* shard directories of the store
  objs,       \* stored objects: path -> bytes
  req,        \* the HTTP request last handled
  resp        \* what the handler did with it

vars == <<active, strict, dryrun, tags, batch, pc, loc, out,
          committed, pending, writer, nuuid, dirs, objs, req, resp>>

ingestVars == <<batch, pc, loc, out, nuuid>>
httpVars == <<req, resp>>

cfgVars == <<active, strict, dryrun, tags>>
dbVars == <<committed, pending, writer>>
fsVars == <<dirs, objs>>

\* --------------------------------------------------------------- catalog
\* MDB_DEFS: three tables, no UNIQUE constraint on (fileSize, fileHash).
\* Logs.timestamp (datetime()) is left out: nothing reads it.
EmptyDb == [Entries |-> <<>>, Attrs |-> <<>>, Logs |-> <<>>]

EntryRow(eid, fileid, filetype, filesize, filehash) ==
  [entryId |-> eid, fileId |-> fileid, fileType |-> filetype,
   fileSize |-> filesize, fileHash |-> filehash]

AttrRow(eid, name, value) == [entryId |-> eid, attrName |-> name, attrValue |-> value]

LogRow(aid, eid, action) == [actionId |-> aid, entryId |-> eid, action |-> action]

Range(q) == {q[i] : i \in DOMAIN q}

\* What a statement of invocation p reads: its own open transaction, or the
\* committed tables.
View(p) == IF writer = p THEN pending ELSE committed

\* An INSERT needs the write lock; sqlite3 raises OperationalError when another
\* connection holds it.
CanWrite(p) == writer \in {0, p}

\* INTEGER PRIMARY KEY given NULL: one more than the largest rowid.
NextRowId(rows, key) ==
  IF rows = <<>> THEN 1
  ELSE 1 + (CHOOSE m \in {r[key] : r \in Range(rows)} :
              \A r \in Range(rows) : r[key] <= m)

\* The same lookup made on another connection: it never sees the rows of the
\* open write transaction.
FindDuplicate_Committed(db, filesize, filehash) ==
  {r.entryId : r \in {x \in Range(committed.Entries) :
                        x.fileSize = filesize /\ x.fileHash = filehash}}

\* The lookup with the hash compared against the wrong column.
FindDuplicate_WrongColumn(db, filesize, filehash) ==
  {r.entryId : r \in {x \in Range(db.Entries) :
                        x.fileSize = filesize /\ x.fileId = filehash}}

\* SELECT entryId FROM Entries WHERE fileSize=? AND fileHash=?
FindDuplicate(db, filesize, filehash) ==
  {r.entryId : r \in {x \in Range(db.Entries) :
                        x.fileSize = filesize /\ x.fileHash = filehash}}

\* The relaxed check with the path and mtime parameters bound the other way
\* round.
FindDuplicateByPathAndMtime_Swapped(db, filesize, relpath, mtime) ==
  {r.entryId : r \in {x \in Range(db.Entries) :
     /\ x.fileSize = filesize
     /\ \E a1 \in Range(db.Attrs) :
          a1.entryId = x.entryId /\ a1.attrName = "path" /\ a1.attrValue = str(mtime)
     /\ \E a2 \in Range(db.Attrs) :
          a2.entryId = x.entryId /\ a2.attrName = "mtime" /\ a2.attrValue = relpath}}

\* The relaxed check: an entry of this size with a path attribute equal to
\* relpath and an mtime attribute equal to mtime (bound as an integer, compared
\* as text against the TEXT column).
FindDuplicateByPathAndMtime(db, filesize, relpath, mtime) ==
  {r.entryId : r \in {x \in Range(db.Entries) :
     /\ x.fileSize = filesize
     /\ \E a1 \in Range(db.Attrs) :
          a1.entryId = x.entryId /\ a1.attrName = "path" /\ a1.attrValue = relpath
     /\ \E a2 \in Range(db.Attrs) :
          a2.entryId = x.entryId /\ a2.attrName = "mtime" /\ a2.attrValue = str(mtime)}}

\* ----------------------------------------------------------------- store
origdir == "orig"
thumbdir == "thumb"

\* get_path: the shard directory it creates when absent, and the path it returns.
ShardOf(subdir, fileid) == [sub |-> subdir, prefix |-> SubSeq(fileid, 1, 2)]

get_path(subdir, fileid) ==
  [sub |-> subdir, prefix |-> SubSeq(fileid, 1, 2), name |-> fileid]

\* The same token at every draw.
uuid4_Fixed(n) == <<"c", "0", "0">>

\* uuid.uuid4().hex: a fresh token each draw (collisions are not modelled).
uuid4(n) == <<"c", Digit[(n % 2) + 1]>> \o str(n)

\* A write of data to a path that stops after k bytes; k = -1 fails before the
\* file is created.
WriteUpTo(store, path, data, k) ==
  IF k < 0 THEN store
  ELSE [q \in DOMAIN store \cup {path} |->
          IF q = path THEN SubSeq(data, 1, k) ELSE store[q]]

\* ------------------------------------------------- requests and responses
\* A request: the method, the request path and the Range header (<<>> when the
\* header is absent), and whether the client connection fails while the
\* headers ("headers") or the body ("body") are written.
NoReq == [method |-> "", path |-> <<>>, range |-> <<>>, io |-> "ok"]

\* What the handler did: the status line sent (0: none), Content-Length and
\* Content-Range as sent (<<>>: header not sent), the body bytes written, the
\* exception that left the handler ("": none), and the files it opened and
\* closed.  The HTML page of send_error is not modelled.
NoResp == [status |-> 0, clen |-> <<>>, crange |-> <<>>, body |-> <<>>,
           raised |-> "", opened |-> 0, closed |-> 0]

\* ------------------------------------------------------------------- add
NoLoc == [file |-> 0, filesize |-> 0, filehash |-> <<>>, fileid |-> <<>>,
          filetype |-> None, eid |-> NoEid]

\* Lines 380-389: the prober is chosen by the MIME type; none for an unknown type.
Probed(filetype) ==
  IF filetype = None THEN FALSE
  ELSE \/ startswith(filetype, "video/") \/ startswith(filetype, "audio/")
       \/ startswith(filetype, "image/")

ProbeAttrs(f, filetype) == IF Probed(filetype) THEN f.attrs1 ELSE <<>>

ProbeThumbnail(f, filetype) == IF Probed(filetype) THEN f.thumbnail ELSE <<>>

HasName(attrs, n) == \E i \in DOMAIN attrs : attrs[i].name = n

\* The ctime timestamp appended without looking for the prober's.
WithTimestamp_Always(attrs1, f) ==
  Append(attrs1, Attr("timestamp", PyText(time2str(f.ctime))))

\* Lines 390-391: a timestamp from the source's ctime when the prober gave none.
WithTimestamp(attrs1, f) ==
  IF HasName(attrs1, "timestamp") THEN attrs1
  ELSE Append(attrs1, Attr("timestamp", PyText(time2str(f.ctime))))

TagAttrs(ws) == [i \in 1..Len(ws) |-> Attr("tag", PyText(ws[i]))]

\* The caller's tags put before the words of the path.
BuildAttrs_TagsFirst(f, filetype, ts) ==
  <<Attr("path", PyText(f.relpath)), Attr("mtime", PyInt(f.mtime))>>
    \o TagAttrs(ts)
    \o TagAttrs(get_words(f.relpath))
    \o WithTimestamp(ProbeAttrs(f, filetype), f)

\* Lines 375-392: the (name, value) list handed to _add_attrs.
BuildAttrs(f, filetype, ts) ==
  <<Attr("path", PyText(f.relpath)), Attr("mtime", PyInt(f.mtime))>>
    \o TagAttrs(get_words(f.relpath))
    \o TagAttrs(ts)
    \o WithTimestamp(ProbeAttrs(f, filetype), f)

\* _add_attrs: one INSERT per pair, the value stored as str(value).
AttrRows(eid, attrs) ==
  [i \in 1..Len(attrs) |-> AttrRow(eid, attrs[i].name, PyStr(attrs[i].value))]

\* The copy made whatever the dry-run flag says.
WritesOriginal_Always(p) == TRUE

\* The thumbnail named after the whole id, extension kept.
ThumbNameOf_KeepExt(fileid) == fileid \o <<".", "j", "p", "g">>

\* Lines 395-396: the thumbnail is named after the id without its extension.
ThumbNameOf(fileid) == splitext(fileid)[1] \o <<".", "j", "p", "g">>

\* Lines 370 and 394: the store is written only outside dry-run.
WritesOriginal(p) == ~dryrun[p]

WritesThumbnail(p, thumbnail) == ~dryrun[p] /\ thumbnail # <<>>

\* add handing the entry id back to its caller.
add_return_eid(eid) == eid

\* Line 368 and line 400: add ends with a bare return in both cases.
add_return(eid) == NoEid

\* The add call of p ends: its outcome is recorded and run moves on.
\* eid is the new entry's id, or the one DuplicateEntry carried.
EndAdd(p, outcome, eid, nextpc) ==
  /\ out' = [out EXCEPT ![p] = Append(@,
               [file |-> Head(batch[p]), outcome |-> outcome, eid |-> eid,
                ret |-> IF outcome = "raised" THEN NoEid ELSE add_return(eid)])]
  /\ batch' = [batch EXCEPT ![p] = Tail(@)]
  /\ loc' = [loc EXCEPT ![p] = NoLoc]
  /\ pc' = [pc EXCEPT ![p] = nextpc]

Goto(p, nextpc) == pc' = [pc EXCEPT ![p] = nextpc]

\* _add_entry, lines 321-332: stat the source, then the relaxed check.
AddEntryStat(p) ==
  /\ pc[p] = "run" /\ batch[p] # <<>>
  /\ LET f == Files[Head(batch[p])]
         filesize == Len(f.data)
     IN \E ok \in BOOLEAN :
        \E eid \in FindDuplicateByPathAndMtime(View(p), filesize, f.relpath, f.mtime)
                     \cup {NoEid} :
          IF ~ok THEN eid = NoEid /\ EndAdd(p, "raised", NoEid, "raise")
          ELSE IF ~strict[p] /\ FindDuplicateByPathAndMtime(
                                  View(p), filesize, f.relpath, f.mtime) # {}
          THEN eid # NoEid /\ EndAdd(p, "ignored", eid, "run")
          ELSE /\ eid = NoEid
               /\ loc' = [loc EXCEPT ![p] = [NoLoc EXCEPT !.file = Head(batch[p]),
                                                          !.filesize = filesize]]
               /\ Goto(p, "hash")
               /\ UNCHANGED <<out, batch>>
  /\ UNCHANGED <<cfgVars, dbVars, fsVars, nuuid, httpVars>>

\* _add_entry, lines 333-338: hash the source, then the size/hash lookup.
AddEntryHash(p) ==
  /\ pc[p] = "hash"
  /\ LET f == Files[loc[p].file]
         filehash == get_filehash(f.data)
         found == FindDuplicate(View(p), loc[p].filesize, filehash)
     IN \E ok \in BOOLEAN : \E eid \in found \cup {NoEid} :
          IF ~ok THEN eid = NoEid /\ EndAdd(p, "raised", NoEid, "raise")
          ELSE IF found # {}
          THEN eid # NoEid /\ EndAdd(p, "ignored", eid, "run")
          ELSE /\ eid = NoEid
               /\ loc' = [loc EXCEPT ![p].filehash = filehash]
               /\ Goto(p, "insert")
               /\ UNCHANGED <<out, batch>>
  /\ UNCHANGED <<cfgVars, dbVars, fsVars, nuuid, httpVars>>

\* _add_entry, lines 339-346: a fresh file id, then the INSERT.
AddEntryInsert(p) ==
  /\ pc[p] = "insert"
  /\ LET f == Files[loc[p].file]
         fileid == uuid4(nuuid) \o lower(splitext(f.relpath)[2])
         filetype == guess_type(f.relpath)
         db == View(p)
         eid == NextRowId(db.Entries, "entryId")
     IN /\ nuuid' = nuuid + 1
        /\ IF ~CanWrite(p)
           THEN EndAdd(p, "raised", NoEid, "raise") /\ UNCHANGED dbVars
           ELSE /\ pending' = [db EXCEPT !.Entries = Append(@,
                     EntryRow(eid, fileid, filetype, loc[p].filesize, loc[p].filehash))]
                /\ writer' = p
                /\ loc' = [loc EXCEPT ![p].fileid = fileid, ![p].filetype = filetype,
                                      ![p].eid = eid]
                /\ Goto(p, "store")
                /\ UNCHANGED <<committed, out, batch>>
  /\ UNCHANGED <<cfgVars, fsVars, httpVars>>

\* add, lines 370-373: copy the original into the store, stat the source again.
AddStore(p) ==
  /\ pc[p] = "store"
  /\ LET f == Files[loc[p].file]
         dstpath == get_path(origdir, loc[p].fileid)
     IN \E k \in -1..Len(f.data) : \E ok \in BOOLEAN :
          /\ IF WritesOriginal(p)
             THEN /\ dirs' = dirs \cup {ShardOf(origdir, loc[p].fileid)}
                  /\ objs' = WriteUpTo(objs, dstpath, f.data, k)
             ELSE k = Len(f.data) /\ UNCHANGED fsVars
          /\ IF k = Len(f.data) /\ ok
             THEN Goto(p, "attrs") /\ UNCHANGED <<out, batch, loc>>
             ELSE (k < Len(f.data) => ok) /\ EndAdd(p, "raised", NoEid, "raise")
  /\ UNCHANGED <<cfgVars, dbVars, nuuid, httpVars>>

\* add, lines 375-393: assemble the attributes and insert them.
AddAttrs(p) ==
  /\ pc[p] = "attrs"
  /\ LET f == Files[loc[p].file]
         attrs == BuildAttrs(f, loc[p].filetype, tags[p])
     IN pending' = [pending EXCEPT !.Attrs = @ \o AttrRows(loc[p].eid, attrs)]
  /\ Goto(p, "thumb")
  /\ UNCHANGED <<cfgVars, committed, writer, fsVars, nuuid, out, batch, loc, httpVars>>

\* add, lines 394-398: write the thumbnail under the id's basename + '.jpg'.
AddThumb(p) ==
  /\ pc[p] = "thumb"
  /\ LET f == Files[loc[p].file]
         thumbnail == ProbeThumbnail(f, loc[p].filetype)
         name == ThumbNameOf(loc[p].fileid)
     IN \E k \in -1..Len(thumbnail) :
          /\ IF WritesThumbnail(p, thumbnail)
             THEN /\ dirs' = dirs \cup {ShardOf(thumbdir, name)}
                  /\ objs' = WriteUpTo(objs, get_path(thumbdir, name), thumbnail, k)
             ELSE k = Len(thumbnail) /\ UNCHANGED fsVars
          /\ IF k = Len(thumbnail)
             THEN Goto(p, "log") /\ UNCHANGED <<out, batch, loc>>
             ELSE EndAdd(p, "raised", NoEid, "raise")
  /\ UNCHANGED <<cfgVars, dbVars, nuuid, httpVars>>

\* add, lines 399-400: the 'add' log row, then return.
AddLog(p) ==
  /\ pc[p] = "log"
  /\ pending' = [pending EXCEPT !.Logs = Append(@,
        LogRow(NextRowId(pending.Logs, "actionId"), loc[p].eid, "add"))]
  /\ EndAdd(p, "added", loc[p].eid, "run")
  /\ UNCHANGED <<cfgVars, committed, writer, fsVars, nuuid, httpVars>>

\* main, lines 501-504: run has returned or raised; close() commits.
Close(p) ==
  /\ \/ pc[p] = "run" /\ batch[p] = <<>>
     \/ pc[p] = "raise"
  /\ IF writer = p
     THEN committed' = pending /\ writer' = 0 /\ pending' = EmptyDb
     ELSE UNCHANGED dbVars
  /\ Goto(p, "closed")
  /\ UNCHANGED <<cfgVars, fsVars, nuuid, out, batch, loc, httpVars>>

\* ---------------------------------------------------- an existing archive
\* An archive as one completed add of f, outside dry-run and without tags,
\* leaves it once committed: the tables, the objects and the shard directories.
ArchiveDb(f, fileid) ==
  [Entries |-> <<EntryRow(1, fileid, guess_type(f.relpath), Len(f.data),
                          get_filehash(f.data))>>,
   Attrs |-> AttrRows(1, BuildAttrs(f, guess_type(f.relpath), <<>>)),
   Logs |-> <<LogRow(1, 1, "add")>>]

ArchiveObjs(f, fileid) ==
  LET orig == WriteUpTo(<<>>, get_path(origdir, fileid), f.data, Len(f.data))
      thumbnail == ProbeThumbnail(f, guess_type(f.relpath))
  IN IF thumbnail = <<>> THEN orig
     ELSE WriteUpTo(orig, get_path(thumbdir, ThumbNameOf(fileid)), thumbnail,
                    Len(thumbnail))

ArchiveDirs(f, fileid) ==
  {ShardOf(origdir, fileid)} \cup
    (IF ProbeThumbnail(f, guess_type(f.relpath)) = <<>> THEN {}
     ELSE {ShardOf(thumbdir, ThumbNameOf(fileid))})

StoredId == uuid4(0) \o <<".", "j">>
StoredThumbId == ThumbNameOf(StoredId)

\* ------------------------------------------------------- DBRequestHandler
IsDigit(c) == \E i \in DOMAIN Digit : Digit[i] = c

DigitVal(c) == (CHOOSE i \in DOMAIN Digit : Digit[i] = c) - 1

\* int() of a string of decimal digits.
RECURSIVE int(_)
int(ds) ==
  IF ds = <<>> THEN 0
  ELSE 10 * int(SubSeq(ds, 1, Len(ds) - 1)) + DigitVal(ds[Len(ds)])

\* (\d+)? at the head of text: the longest run of digits, <<>> for no group.
RECURSIVE DigitsPrefix(_)
DigitsPrefix(text) ==
  IF text # <<>> /\ IsDigit(Head(text))
  THEN <<Head(text)>> \o DigitsPrefix(Tail(text))
  ELSE <<>>

\* RANGE.match(rs), line 202: 'bytes=' in any case at the start (one element of
\* the header text here), optional digits, '-', optional digits; what follows
\* is not looked at.
RangeMatch(rs) ==
  LET after == IF rs = <<>> THEN <<>> ELSE Tail(rs)
      g1 == DigitsPrefix(after)
      rest == SubSeq(after, Len(g1) + 1, Len(after))
  IN [matched |-> /\ rs # <<>>
                  /\ Head(rs) \in {"bytes=", "BYTES="}
                  /\ rest # <<>>
                  /\ Head(rest) = "-",
      s |-> g1,
      e |-> IF rest = <<>> THEN <<>> ELSE DigitsPrefix(Tail(rest))]

\* The end bound taken as exclusive without adding one.
range_bounds_NoPlusOne(s, e, length) ==
  IF s = <<>> THEN <<length - int(e), length>>
  ELSE IF e = <<>> THEN <<int(s), length>>
  ELSE <<int(s), int(e)>>

\* Lines 219-227: the start offset and the exclusive end of the range.
range_bounds(s, e, length) ==
  IF s = <<>> THEN <<length - int(e), length>>
  ELSE IF e = <<>> THEN <<int(s), length>>
  ELSE <<int(s), int(e) + 1>>

OrigName == <<"o", "r", "i", "g">>
ThumbName == <<"t", "h", "u", "m", "b">>

\* str.partition('/') of text.
partition(text) ==
  IF \E i \in DOMAIN text : text[i] = "/"
  THEN LET i == CHOOSE k \in DOMAIN text :
                  text[k] = "/" /\ \A j \in 1..(k-1) : text[j] # "/"
       IN <<SubSeq(text, 1, i - 1), SubSeq(text, i + 1, Len(text))>>
  ELSE <<text, <<>>>>

\* convert_path with get_path, lines 192-200 and 276-283: the HTTP error or
\* exception it ends with (0 and "" for none), the path it returns and the
\* shard directory get_path makes sure exists.
convert_path(path) ==
  LET parts == partition(Tail(path))
      category == parts[1]
      fileid == parts[2]
      subdir == IF category = OrigName THEN origdir ELSE thumbdir
  IN IF category \notin {OrigName, ThumbName}
     THEN [code |-> 400, raised |-> "", path |-> <<>>, made |-> {}]
     ELSE IF ~(2 < Len(fileid))
     THEN [code |-> 0, raised |-> "AssertionError", path |-> <<>>, made |-> {}]
     ELSE [code |-> 0, raised |-> "", path |-> get_path(subdir, fileid),
           made |-> {ShardOf(subdir, fileid)}]

\* fp.seek(offset); fp.read(nbytes) on a file holding data: the bytes read,
\* or the exception raised.
SeekRead(data, offset, nbytes) ==
  IF offset < 0 THEN [raised |-> "OSError", data |-> <<>>]
  ELSE IF nbytes < -1 THEN [raised |-> "ValueError", data |-> <<>>]
  ELSE IF nbytes = -1 THEN [raised |-> "", data |-> SubSeq(data, offset + 1, Len(data))]
  ELSE [raised |-> "",
        data |-> SubSeq(data, offset + 1,
                        IF offset + nbytes < Len(data) THEN offset + nbytes ELSE Len(data))]

ErrorResp(code) == [NoResp EXCEPT !.status = code]

\* How a Range request that opened its file leaves the handler: "headers" (an
\* exception while the headers are sent, lines 229-238), "head" (do_HEAD, line
\* 183), "read" (seek or read raised), "body" (the write raised) or "sent".
RangeExit(method, io, got) ==
  IF io = "headers" THEN "headers"
  ELSE IF method = "HEAD" THEN "head"
  ELSE IF got.raised # "" THEN "read"
  ELSE IF io = "body" THEN "body"
  ELSE "sent"

\* do_GET closing the file after the write only, with no finally clause.
fp_closed_NoFinally(exit) == IF exit \in {"read", "body"} THEN 0 ELSE 1

\* The fp.close() calls reached on each exit: line 237 in the except clause of
\* send_head_partial, line 183 in do_HEAD, line 169 in the finally of do_GET.
fp_closed(exit) ==
  CASE exit = "headers" -> 1
    [] exit = "head" -> 1
    [] exit \in {"read", "body", "sent"} -> 1

\* send_head_partial and the body of do_GET / do_HEAD for a Range request,
\* lines 204-239, 163-170 and 181-186.  translate_path is taken to map the
\* converted path onto the stored object (the archive lies under the
\* server's working directory).
RangeResp(method, path, rs, io) ==
  LET m == RangeMatch(rs)
  IN IF ~m.matched THEN ErrorResp(400)
     ELSE IF m.s = <<>> /\ m.e = <<>> THEN ErrorResp(400)
     ELSE IF path \notin DOMAIN objs THEN ErrorResp(404)
     ELSE LET data == objs[path]
              length == Len(data)
              b == range_bounds(m.s, m.e, length)
              nbytes == b[2] - b[1]
              got == SeekRead(data, b[1], nbytes)
              exit == RangeExit(method, io, got)
              head == [NoResp EXCEPT !.status = 206, !.clen = <<nbytes>>,
                                     !.crange = <<b[1], b[2] - 1, length>>,
                                     !.opened = 1, !.closed = fp_closed(exit)]
          IN CASE exit \in {"headers", "body"} -> [head EXCEPT !.raised = "BrokenPipeError"]
               [] exit = "head" -> head
               [] exit = "read" -> [head EXCEPT !.raised = got.raised]
               [] exit = "sent" -> [head EXCEPT !.body = got.data]

\* SimpleHTTPRequestHandler.do_GET / do_HEAD, reached at lines 171 and 187 when
\* there is no Range header: 404, or 200 with the whole file.
PlainResp(method, path, io) ==
  IF path \notin DOMAIN objs THEN ErrorResp(404)
  ELSE LET data == objs[path]
           head == [NoResp EXCEPT !.status = 200, !.clen = <<Len(data)>>,
                                  !.opened = 1, !.closed = 1]
       IN IF io = "headers" THEN [head EXCEPT !.raised = "BrokenPipeError"]
          ELSE IF method = "HEAD" THEN head
          ELSE IF io = "body" THEN [head EXCEPT !.raised = "BrokenPipeError"]
          ELSE [head EXCEPT !.body = data]

\* do_GET and do_HEAD, lines 158-190.
Handle(r) ==
  LET c == convert_path(r.path)
  IN /\ req' = r
     /\ dirs' = dirs \cup c.made
     /\ resp' = IF c.raised # "" THEN [NoResp EXCEPT !.raised = c.raised]
                ELSE IF c.code # 0 THEN ErrorResp(c.code)
                ELSE IF r.range # <<>> THEN RangeResp(r.method, c.path, r.range, r.io)
                ELSE PlainResp(r.method, c.path, r.io)
     /\ UNCHANGED <<cfgVars, dbVars, ingestVars, objs>>

\* The requests of the model: ids stored and not, short ids, other categories;
\* every range over the numbers up to MaxLen + 1, a two-digit start, headers
\* that do not match and one with a second range after the first.
RangeNums == 0..(MaxLen + 1)

RangeHdr(a, b) ==
  <<"bytes=">> \o (IF a < 0 THEN <<>> ELSE str(a)) \o <<"-">>
               \o (IF b < 0 THEN <<>> ELSE str(b))

RangeHeaders ==
  {RangeHdr(a, b) : a \in RangeNums \cup {-1}, b \in RangeNums \cup {-1}}
    \cup { <<>>, <<"bytes=">>, <<"bytes=", "1">>, <<"items=", "0", "-", "1">>,
           <<"BYTES=", "0", "-", "0">>, <<"bytes=", "1", "0", "-">>,
           <<"bytes=", "0", "-", "1", ",", "2", "-", "2">> }

RequestIds == {StoredId, StoredThumbId, <<"z", "z", "9">>, <<"a", "b">>, <<>>}

RequestPaths ==
  {<<"/">> \o c \o <<"/">> \o i : c \in {OrigName, ThumbName, <<"x">>}, i \in RequestIds}
    \cup {<<"/">> \o OrigName}

RequestsBy(method) ==
  [method : {method}, path : RequestPaths, range : RangeHeaders,
   io : {"ok", "headers", "body"}]

do_GET == req = NoReq /\ \E r \in RequestsBy("GET") : Handle(r)

do_HEAD == req = NoReq /\ \E r \in RequestsBy("HEAD") : Handle(r)

\* httpd.serve_forever(), line 426: the handler has returned or raised, and the
\* server waits for the next request.
serve_forever ==
  /\ req # NoReq
  /\ req' = NoReq
  /\ resp' = NoResp
  /\ UNCHANGED <<cfgVars, dbVars, ingestVars, fsVars>>

\* ------------------------------------------------------------ behaviours
\* FileDB.__init__ on a new archive directory, or on one that an earlier
\* invocation left with Files[1] ingested; then `add` with a batch.
InitOf(running) ==
  /\ active = running
  /\ strict \in [Procs -> BOOLEAN]
  /\ dryrun \in [Procs -> BOOLEAN]
  /\ tags \in [Procs -> TagChoices]
  /\ batch \in [Procs -> Batches]
  /\ \A p \in Procs \ running :
       ~strict[p] /\ ~dryrun[p] /\ tags[p] = <<>> /\ batch[p] = <<1>>
  /\ pc = [p \in Procs |-> IF p \in running THEN "run" ELSE "off"]
  /\ loc = [p \in Procs |-> NoLoc]
  /\ out = [p \in Procs |-> <<>>]
  /\ \E earlier \in BOOLEAN :
       IF earlier
       THEN /\ committed = ArchiveDb(Files[1], StoredId)
            /\ objs = ArchiveObjs(Files[1], StoredId)
            /\ dirs = ArchiveDirs(Files[1], StoredId)
            /\ nuuid = 1
       ELSE /\ committed = EmptyDb
            /\ objs = <<>>
            /\ dirs = {}
            /\ nuuid = 0
  /\ pending = EmptyDb
  /\ writer = 0
  /\ req = NoReq
  /\ resp = NoResp

Init == InitOf({1})

Next ==
  \E p \in Procs :
    \/ AddEntryStat(p)
    \/ AddEntryHash(p)
    \/ AddEntryInsert(p)
    \/ AddStore(p)
    \/ AddAttrs(p)
    \/ AddThumb(p)
    \/ AddLog(p)
    \/ Close(p)

\* One invocation on a new archive: the single writer.
Spec == Init /\ [][Next]_vars

\* Two invocations on the same new archive, one file each, steps interleaved.
InitConc ==
  /\ InitOf(Procs)
  /\ \A p \in Procs : Len(batch[p]) <= MaxConcBatch /\ tags[p] = <<>>

SpecConc == InitConc /\ [][Next]_vars

\* The server on an archive that holds one ingested file of up to MaxLen bytes
\* and its thumbnail.
Bytes(n) == [i \in 1..n |-> i]

ServedFile(n) ==
  [relpath |-> <<"b", ".", "j">>, mtime |-> 1, ctime |-> 1, data |-> Bytes(n),
   attrs1 |-> <<>>, thumbnail |-> <<7>>]

InitHttp ==
  /\ active = {}
  /\ strict = [p \in Procs |-> FALSE]
  /\ dryrun = [p \in Procs |-> FALSE]
  /\ tags = [p \in Procs |-> <<>>]
  /\ batch = [p \in Procs |-> <<>>]
  /\ pc = [p \in Procs |-> "off"]
  /\ loc = [p \in Procs |-> NoLoc]
  /\ out = [p \in Procs |-> <<>>]
  /\ \E n \in 0..MaxLen :
       /\ committed = ArchiveDb(ServedFile(n), StoredId)
       /\ objs = ArchiveObjs(ServedFile(n), StoredId)
       /\ dirs = ArchiveDirs(ServedFile(n), StoredId)
  /\ pending = EmptyDb
  /\ writer = 0
  /\ nuuid = 1
  /\ req = NoReq
  /\ resp = NoResp

NextHttp == do_GET \/ do_HEAD \/ serve_forever

SpecHttp == InitHttp /\ [][NextHttp]_vars

\* The server beside one invocation of add: a client asks for the original and
\* for the thumbnail of an id whose add call has returned, naming the
\* thumbnail <id without its extension>.jpg.
IngestedIds ==
  {r.fileId : r \in {x \in Range(committed.Entries) \cup Range(pending.Entries) :
     \E p \in active : \E i \in DOMAIN out[p] :
       out[p][i].outcome = "added" /\ out[p][i].eid = x.entryId}}

JpgOf(c) == splitext(c)[1] \o <<".", "j", "p", "g">>

FetchRequests ==
  [method : {"GET"},
   path : {<<"/">> \o OrigName \o <<"/">> \o c : c \in IngestedIds}
            \cup {<<"/">> \o ThumbName \o <<"/">> \o JpgOf(c) : c \in IngestedIds},
   range : {<<>>, RangeHdr(0, -1)},
   io : {"ok"}]

do_GET_ingested == req = NoReq /\ \E r \in FetchRequests : Handle(r)

NextServe == Next \/ do_GET_ingested \/ serve_forever

SpecServe == Init /\ [][NextServe]_vars

\* ---------------------------------------------------------------- queries
\* The characters of the timestamp values, in byte order (the BINARY
\* collation of a TEXT column).
Collate == Digit \o <<"T", "s", "t">>

Ord(c) == CHOOSE i \in DOMAIN Collate : Collate[i] = c

RECURSIVE TextLess(_, _)
TextLess(a, b) ==
  IF b = <<>> THEN FALSE
  ELSE IF a = <<>> THEN TRUE
  ELSE IF Head(a) # Head(b) THEN Ord(Head(a)) < Ord(Head(b))
  ELSE TextLess(Tail(a), Tail(b))

\* _get_attrs, lines 309-316: the (name, value) pairs of an entry, in row order.
get_attrs(db, eid) ==
  LET rows == SelectSeq(db.Attrs, LAMBDA r : r.entryId = eid)
  IN [i \in 1..Len(rows) |-> <<rows[i].attrName, rows[i].attrValue>>]

\* The rows of the join in list_entry: an entry with one of its timestamp
\* attributes, as positions in Entries and in Attrs.
TimestampJoin(db) ==
  {<<i, j>> \in (DOMAIN db.Entries) \X (DOMAIN db.Attrs) :
     /\ db.Entries[i].entryId = db.Attrs[j].entryId
     /\ db.Attrs[j].attrName = "timestamp"}

\* ORDER BY attrValue DESC; rows of equal value are taken in table order (SQL
\* leaves their order open).
JoinBefore(db, x, y) ==
  \/ TextLess(db.Attrs[y[2]].attrValue, db.Attrs[x[2]].attrValue)
  \/ /\ db.Attrs[x[2]].attrValue = db.Attrs[y[2]].attrValue
     /\ (x[1] < y[1] \/ (x[1] = y[1] /\ x[2] < y[2]))

RECURSIVE OrderDesc(_, _)
OrderDesc(db, rows) ==
  IF rows = {} THEN <<>>
  ELSE LET first == CHOOSE x \in rows : \A y \in rows \ {x} : JoinBefore(db, x, y)
       IN <<first>> \o OrderDesc(db, rows \ {first})

\* list_entry, lines 295-307: what the generator yields, in order.
list_entry(db) ==
  LET rows == OrderDesc(db, TimestampJoin(db))
  IN [k \in 1..Len(rows) |->
        LET e == db.Entries[rows[k][1]]
        IN [eid |-> e.entryId, fileid |-> e.fileId, filetype |-> e.fileType,
            filesize |-> e.fileSize, timestamp |-> db.Attrs[rows[k][2]].attrValue,
            attrs |-> get_attrs(db, e.entryId)]]

\* ----------------------------------------------------------------- claims
Tables == {committed, pending}

DedupKey(r) == <<r.fileSize, r.fileHash>>

UniqueKeys(db) ==
  \A i, j \in DOMAIN db.Entries :
    i # j => DedupKey(db.Entries[i]) # DedupKey(db.Entries[j])

\* The rows of db that hold the content of source file f.
RowsOfContent(db, f) ==
  {r \in Range(db.Entries) :
     r.fileSize = Len(f.data) /\ r.fileHash = get_filehash(f.data)}

\* C1: with a single writer, whatever the mix of new and duplicate content and
\* whatever the strict and dry-run flags, no two rows of Entries agree on both
\* fileSize and fileHash, in the open transaction as in the committed tables.
C1_UniqueDedupKey == \A db \in Tables : UniqueKeys(db)

\* Two files of the same size and different content were both committed.
C1_Witness ==
  /\ pc[1] = "closed"
  /\ Len(committed.Entries) = 2
  /\ committed.Entries[1].fileSize = committed.Entries[2].fileSize

\* C2: an add call on a file whose (size, hash) is already in Entries changes
\* no table and writes nothing to the store at any of its steps, and never
\* reaches the INSERT: it ends ignored (or raised on an I/O error).
C2_DuplicateAddsNothing ==
  [][\A p \in Procs :
       ( /\ pc[p] \in {"run", "hash"}
         /\ batch[p] # <<>>
         /\ RowsOfContent(View(p), Files[Head(batch[p])]) # {}
         /\ <<pc[p], out[p]>>' # <<pc[p], out[p]>> )
       => /\ UNCHANGED <<dbVars, fsVars>>
          /\ pc'[p] \in {"run", "hash", "raise"}
          /\ (out'[p] # out[p] =>
                out'[p][Len(out'[p])].outcome \in {"ignored", "raised"})]_vars

\* The same content was offered twice in strict mode: one row, second call ignored.
C2_Witness ==
  /\ strict[1] /\ pc[1] = "closed"
  /\ Len(out[1]) = 2
  /\ out[1][1].outcome = "added" /\ out[1][2].outcome = "ignored"
  /\ Files[out[1][1].file].data = Files[out[1][2].file].data
  /\ Len(committed.Entries) = 1

C4_AtomicInsert == UniqueKeys(committed)

\* C5 as stated: outside dry-run, every committed row of Entries references an
\* original that is stored whole under orig/.
C5_ObjectBeforeRow ==
  \A p \in active :
    ~dryrun[p] =>
      \A r \in Range(committed.Entries) :
        /\ get_path(origdir, r.fileId) \in DOMAIN objs
        /\ Len(objs[get_path(origdir, r.fileId)]) = r.fileSize
        /\ get_filehash(objs[get_path(origdir, r.fileId)]) = r.fileHash

\* C6 as stated: when the add command has ended, every file of its batch has
\* been processed, whatever happened to the others.
C6_BatchNotAborted ==
  \A p \in active : pc[p] = "closed" => batch[p] = <<>>

\* The Attrs rows of entry eid, in insertion order.
AttrsOf(db, eid) == SelectSeq(db.Attrs, LAMBDA r : r.entryId = eid)

AddLogsOf(db, eid) ==
  {l \in Range(db.Logs) : l.entryId = eid /\ l.action = "add"}

\* The add calls of p that ran to their end on new content.
Added(p) == {i \in DOMAIN out[p] : out[p][i].outcome = "added"}

\* C7: no step of a dry-run invocation writes under orig/ or thumb/, neither
\* an object nor a shard directory, while every add of new content leaves,
\* dry-run or not, its Entries row, its Attrs rows (path, mtime, the tags, the
\* prober's attributes, one timestamp) and one 'add' Logs row.
C7_DryRunPurity ==
  /\ [][\A p \in active :
          (dryrun[p] /\ <<pc[p], out[p]>>' # <<pc[p], out[p]>>)
            => UNCHANGED fsVars]_vars
  /\ [](\A p \in active : \A i \in Added(p) :
         LET f == Files[out[p][i].file]
             e == out[p][i].eid
             rows == AttrsOf(View(p), e)
             probed == guess_type(f.relpath) # None
         IN /\ \E r \in RowsOfContent(View(p), f) : r.entryId = e
            /\ Len(rows) = 2 + Len(get_words(f.relpath)) + Len(tags[p])
                 + (IF probed THEN Len(f.attrs1) ELSE 0)
                 + (IF probed /\ HasName(f.attrs1, "timestamp") THEN 0 ELSE 1)
            /\ Cardinality(AddLogsOf(View(p), e)) = 1)

\* A dry-run add of a new file that has a thumbnail ran to its end on an
\* existing archive and was committed; the store is as it was.
C7_Witness ==
  /\ dryrun[1] /\ pc[1] = "closed"
  /\ \E i \in Added(1) : out[1][i].file = 4
  /\ ProbeThumbnail(Files[4], guess_type(Files[4].relpath)) # <<>>
  /\ Len(committed.Entries) = 2 /\ Len(committed.Logs) = 2
  /\ objs = ArchiveObjs(Files[1], StoredId)
  /\ dirs = ArchiveDirs(Files[1], StoredId)

\* C8: the Attrs rows of a newly ingested file are, in this order: path, mtime,
\* a tag per word of the relative path (lower-cased, in path order), a tag per
\* caller tag (as given, in order), then the prober's attributes in its order
\* with exactly one timestamp among them; repeated tags are kept.
C8_AttrOrder ==
  \A p \in active : \A i \in Added(p) :
    LET f == Files[out[p][i].file]
        e == out[p][i].eid
        rows == AttrsOf(View(p), e)
        words == get_words(f.relpath)
        n == Len(words)
        m == Len(tags[p])
        rest == SubSeq(rows, 3 + n + m, Len(rows))
        given == IF guess_type(f.relpath) # None THEN f.attrs1 ELSE <<>>
    IN /\ Len(rows) >= 3 + n + m
       /\ rows[1] = AttrRow(e, "path", f.relpath)
       /\ rows[2] = AttrRow(e, "mtime", str(f.mtime))
       /\ \A k \in 1..n : rows[2 + k] = AttrRow(e, "tag", words[k])
       /\ \A k \in 1..m : rows[2 + n + k] = AttrRow(e, "tag", tags[p][k])
       /\ \A k \in DOMAIN rest : rest[k].attrName \notin {"path", "mtime", "tag"}
       /\ \A k \in DOMAIN given :
            rest[k] = AttrRow(e, given[k].name, PyStr(given[k].value))
       /\ Cardinality({k \in DOMAIN rest : rest[k].attrName = "timestamp"}) = 1
       /\ out[p][i].file = 1 =>
            SubSeq(rows, 3, 2 + n) = << AttrRow(e, "tag", <<"a">>),
                                        AttrRow(e, "tag", <<"b">>),
                                        AttrRow(e, "tag", <<"j">>) >>
       /\ out[p][i].file = 4 =>
            SubSeq(rows, 3, 2 + n) = << AttrRow(e, "tag", <<"a">>),
                                        AttrRow(e, "tag", <<"a">>),
                                        AttrRow(e, "tag", <<"m">>) >>

\* A file whose path has the word b was added with the caller tags b and X.
C8_Witness ==
  \E i \in Added(1) :
    /\ out[1][i].file = 2
    /\ tags[1] = << <<"b">>, <<"X">> >>
    /\ Len(AttrsOf(View(1), out[1][i].eid)) = 9

\* The request paths that name a stored object, with the object's path.
StoredRequests ==
  { [path |-> <<"/">> \o OrigName \o <<"/">> \o StoredId,
     obj |-> get_path(origdir, StoredId)],
    [path |-> <<"/">> \o ThumbName \o <<"/">> \o StoredThumbId,
     obj |-> get_path(thumbdir, StoredThumbId)] }

\* The bytes of data at the offsets from..to, both counted from 0.
Slice(data, from, to) == [i \in 1..(to - from + 1) |-> data[from + i]]

Answered206(a, b, data) ==
  /\ resp.status = 206
  /\ resp.raised = ""
  /\ resp.crange = <<a, b, Len(data)>>
  /\ resp.body = Slice(data, a, b)
  /\ Len(resp.body) = b - a + 1

\* C9: a GET for a stored file of length L whose Range header lies within the
\* file is answered 206 with: for bytes=a-b, Content-Range a-b/L and the bytes
\* at a..b; for bytes=a-, Content-Range a-(L-1)/L and the bytes from a; for
\* bytes=-N, Content-Range (L-N)-(L-1)/L and the last N bytes.
C9_RangeArithmetic ==
  \A q \in StoredRequests :
    (req.method = "GET" /\ req.io = "ok" /\ req.path = q.path) =>
      LET data == objs[q.obj]
          L == Len(data)
      IN /\ \A a, b \in RangeNums :
              (req.range = RangeHdr(a, b) /\ a <= b /\ b < L)
                => Answered206(a, b, data)
         /\ \A a \in RangeNums :
              (req.range = RangeHdr(a, -1) /\ a < L)
                => Answered206(a, L - 1, data)
         /\ \A n \in RangeNums :
              (req.range = RangeHdr(-1, n) /\ 1 <= n /\ n <= L)
                => Answered206(L - n, L - 1, data)

\* bytes=1-2 of a three-byte file was served.
C9_Witness ==
  /\ req.method = "GET" /\ req.range = RangeHdr(1, 2)
  /\ resp.status = 206 /\ resp.body = <<2, 3>> /\ resp.crange = <<1, 2, 3>>

\* C10 as stated: whatever the start and end of the Range header, a GET
\* answered 206 to a client that stays connected carries a Content-Length
\* equal to the number of body bytes written.
C10_ContentLengthIsBodyLength ==
  (req.method = "GET" /\ req.io = "ok" /\ resp.status = 206)
    => resp.clen = <<Len(resp.body)>>

\* The request carries a Range header (do_GET line 162, do_HEAD line 180).
IsRangeRequest == req # NoReq /\ req.range # <<>>

\* C11: when a GET or HEAD request with a Range header has been handled,
\* however it ended, every file the handler opened is closed again; it opened
\* at most one, and exactly one when it got as far as the 206 status line.
C11_HandleClosed ==
  IsRangeRequest =>
    /\ resp.opened = resp.closed
    /\ resp.opened <= 1
    /\ (resp.opened = 1) = (resp.status = 206)

\* A GET whose seek failed after the 206 headers: the file was opened and closed.
C11_Witness ==
  /\ req.method = "GET" /\ req.range = RangeHdr(-1, MaxLen + 1)
  /\ resp.status = 206 /\ resp.raised = "OSError"
  /\ resp.opened = 1 /\ resp.closed = 1

\* C12: no step of the HTTP server creates, changes or removes a file or
\* directory of the store, or a catalog row.
C12_ServerReadOnly == [][UNCHANGED <<fsVars, dbVars>>]_vars

\* The category and the id of the request path /<category>/<id>.
ReqCategory == partition(Tail(req.path))[1]

ReqId == partition(Tail(req.path))[2]

ReqHasId == \E i \in DOMAIN req.path : i > 1 /\ req.path[i] = "/"

\* A Range header of the form bytes=<start>?-<end>? with start or end present.
WellFormedRange(rs) ==
  /\ RangeMatch(rs).matched
  /\ ~(RangeMatch(rs).s = <<>> /\ RangeMatch(rs).e = <<>>)

\* An object named id is stored under the directory of the category.
StoredUnder(category, id) ==
  \E path \in DOMAIN objs :
    /\ path.name = id
    /\ path.sub = (IF category = OrigName THEN origdir ELSE thumbdir)

\* C13: a request for a category other than orig and thumb is answered 400,
\* and so is a request whose Range header is not of the form
\* bytes=<start>?-<end>? or has neither start nor end; neither opens a file.
C13_BadRequest400 ==
  req # NoReq =>
    /\ ReqCategory \notin {OrigName, ThumbName} =>
         resp.status = 400 /\ resp.opened = 0
    /\ (req.range # <<>> /\ ~WellFormedRange(req.range)) =>
         resp.status = 400 /\ resp.opened = 0

\* C14: a request /orig/<id> or /thumb/<id>, with a well-formed Range header
\* or none, for an id of any length under which nothing is stored in that
\* category, is answered 404.
C14_Missing404 ==
  ( /\ req # NoReq
    /\ ReqHasId
    /\ ReqCategory \in {OrigName, ThumbName}
    /\ req.range = <<>> \/ WellFormedRange(req.range)
    /\ ~StoredUnder(ReqCategory, ReqId) )
  => resp.status = 404

\* The add calls of p that stored new content: the file, and the entry's id.
StoredAdds ==
  {<<p, i>> \in active \X (1..MaxBatch + 1) :
     i \in DOMAIN out[p] /\ out[p][i].outcome = "added" /\ ~dryrun[p]}

FileIdOf(p, eid) ==
  (CHOOSE r \in Range(View(p).Entries) : r.entryId = eid).fileId

HasObject(path, data) == path \in DOMAIN objs /\ objs[path] = data

Fetched(category, name) ==
  req # NoReq /\ req.path = <<"/">> \o category \o <<"/">> \o name

\* C15: once a non-dry-run add of new content with id c has returned, the
\* source bytes are stored at orig/<c[0:2]>/<c>, and a request for /orig/c is
\* answered with them; the thumbnail, when the prober made one, is stored at
\* thumb/<c[0:2]>/<c without extension>.jpg and a request for
\* /thumb/<c without extension>.jpg is answered with it.
C15_StableAddressing ==
  \A a \in StoredAdds :
    LET f == Files[out[a[1]][a[2]].file]
        c == FileIdOf(a[1], out[a[1]][a[2]].eid)
        thumbnail == ProbeThumbnail(f, guess_type(f.relpath))
    IN /\ HasObject([sub |-> "orig", prefix |-> SubSeq(c, 1, 2), name |-> c], f.data)
       /\ convert_path(<<"/">> \o OrigName \o <<"/">> \o c).path
            = [sub |-> "orig", prefix |-> SubSeq(c, 1, 2), name |-> c]
       /\ Fetched(OrigName, c) =>
            resp.status \in {200, 206} /\ resp.body = f.data
       /\ thumbnail # <<>> =>
            /\ HasObject([sub |-> "thumb", prefix |-> SubSeq(c, 1, 2),
                          name |-> JpgOf(c)], thumbnail)
            /\ Fetched(ThumbName, JpgOf(c)) =>
                 resp.status \in {200, 206} /\ resp.body = thumbnail

\* A thumbnail fetched after the add of a file the prober made one for.
C15_Witness ==
  \E a \in StoredAdds :
    LET c == FileIdOf(a[1], out[a[1]][a[2]].eid)
    IN /\ Fetched(ThumbName, JpgOf(c))
       /\ resp.status = 200
       /\ resp.body = Files[out[a[1]][a[2]].file].thumbnail
       /\ resp.body # <<>>

\* The entries whose fileSize, path attribute and mtime attribute are those
\* of the file f.
RowsOfStat(db, f) ==
  {r \in Range(db.Entries) :
     /\ r.fileSize = Len(f.data)
     /\ \E i \in DOMAIN db.Attrs :
          /\ db.Attrs[i].entryId = r.entryId
          /\ db.Attrs[i].attrName = "path" /\ db.Attrs[i].attrValue = f.relpath
     /\ \E i \in DOMAIN db.Attrs :
          /\ db.Attrs[i].entryId = r.entryId
          /\ db.Attrs[i].attrName = "mtime" /\ db.Attrs[i].attrValue = str(f.mtime)}

\* C16: outside strict mode, an add call on a file whose path, mtime and size
\* are those of an existing Entry ends as a duplicate of that Entry at its
\* first step, before the content is hashed and whatever the content is, and
\* changes no table; in strict mode the first step never ends as a duplicate
\* and goes on to the hashing, after which content that no Entry holds is
\* inserted as a new Entry.
C16_RelaxedBeforeHash ==
  [][\A p \in active :
       /\ (pc[p] = "run" /\ batch[p] # <<>> /\ <<pc[p], out[p]>>' # <<pc[p], out[p]>>) =>
            LET f == Files[Head(batch[p])]
            IN /\ (~strict[p] /\ RowsOfStat(View(p), f) # {}) =>
                    /\ pc[p]' \in {"run", "raise"}
                    /\ UNCHANGED dbVars
                    /\ pc[p]' = "run" =>
                         /\ out[p]'[Len(out[p]')].outcome = "ignored"
                         /\ out[p]'[Len(out[p]')].eid
                              \in {r.entryId : r \in RowsOfStat(View(p), f)}
               /\ strict[p] => pc[p]' \in {"hash", "raise"}
       /\ (pc[p] = "hash" /\ strict[p] /\ pc[p]' # pc[p]
             /\ RowsOfContent(View(p), Files[loc[p].file]) = {}) =>
            pc[p]' \in {"insert", "raise"}
       /\ (pc[p] = "insert" /\ pc[p]' = "store") =>
            Len(pending.Entries') = Len(View(p).Entries) + 1]_vars

\* Outside strict mode, a file with the path, mtime and size of an Entry and
\* other content was skipped as a duplicate of it.
C16_Witness ==
  /\ ~strict[1] /\ Len(out[1]) > 0
  /\ LET o == out[1][Len(out[1])]
     IN /\ o.outcome = "ignored"
        /\ o.eid \in {r.entryId : r \in RowsOfStat(View(1), Files[o.file])}
        /\ RowsOfContent(View(1), Files[o.file]) = {}

\* The rows of db that no completed add accounts for: an Entries or Attrs row
\* of an entry without its 'add' Logs row.
PartialRows(db) ==
  {r \in Range(db.Entries) \cup Range(db.Attrs) : AddLogsOf(db, r.entryId) = {}}

\* C17: an add call that ended with an I/O failure left the tables as they
\* were before it: between add calls, at the failure that ends run and after
\* close, the tables hold the rows of completed add calls only.
C17_FailedAddLeavesNoRows ==
  \A p \in active :
    pc[p] \in {"run", "raise", "closed"} =>
      PartialRows(View(p)) = {} /\ PartialRows(committed) = {}

\* The positions of the Attrs rows of entry eid named n.
AttrsNamed(db, eid, n) ==
  {i \in DOMAIN db.Attrs : db.Attrs[i].entryId = eid /\ db.Attrs[i].attrName = n}

\* The positions at which list_entry yields entry eid.
Yields(db, eid) == {k \in DOMAIN list_entry(db) : list_entry(db)[k].eid = eid}

\* The tables an invocation or another reader can see.
Visible == {View(p) : p \in active} \cup {committed}

\* C18: in the open transaction as in the committed tables, an Entry has at
\* most one 'add' Logs row, and an Entry that has one has a path attribute,
\* an mtime attribute and exactly one timestamp attribute, and is yielded
\* exactly once by list_entry; outside dry-run its original is stored in
\* full; the timestamp of an added file is the prober's, or the source's ctime
\* formatted when the prober gave none.
C18_LoggedEntryComplete ==
  /\ \A db \in Visible : \A r \in Range(db.Entries) :
       /\ Cardinality({i \in DOMAIN db.Logs : db.Logs[i].entryId = r.entryId
                                               /\ db.Logs[i].action = "add"}) <= 1
       /\ AddLogsOf(db, r.entryId) # {} =>
            /\ AttrsNamed(db, r.entryId, "path") # {}
            /\ AttrsNamed(db, r.entryId, "mtime") # {}
            /\ Cardinality(AttrsNamed(db, r.entryId, "timestamp")) = 1
            /\ Cardinality(Yields(db, r.entryId)) = 1
            /\ (\A p \in active : ~dryrun[p]) =>
                 /\ get_path(origdir, r.fileId) \in DOMAIN objs
                 /\ Len(objs[get_path(origdir, r.fileId)]) = r.fileSize
  /\ \A p \in active : \A i \in Added(p) :
       LET f == Files[out[p][i].file]
           given == {a \in Range(ProbeAttrs(f, guess_type(f.relpath))) :
                       a.name = "timestamp"}
       IN \A k \in Yields(View(p), out[p][i].eid) :
            list_entry(View(p))[k].timestamp
              \in IF given = {} THEN {time2str(f.ctime)}
                  ELSE {PyStr(a.value) : a \in given}

\* Two files were ingested outside dry-run and committed, one with the
\* prober's timestamp and one with its ctime; list_entry yields both.
C18_Witness ==
  /\ pc[1] = "closed" /\ ~dryrun[1]
  /\ Len(list_entry(committed)) = 2
  /\ Cardinality(AddLogsOf(committed, 1)) = 1
  /\ \E i, j \in Added(1) :
       /\ HasName(Files[out[1][i].file].attrs1, "timestamp")
       /\ ~HasName(Files[out[1][j].file].attrs1, "timestamp")
       /\ list_entry(committed)[1].eid = out[1][i].eid
       /\ list_entry(committed)[2].eid = out[1][j].eid

\* C19: with a single writer, in every state, each object under orig/ is
\* named by the fileId of exactly one row of Entries as the writer sees it
\* (its open transaction, the committed table once closed), and each object
\* under thumb/ is named after the fileId of an Entry whose original is
\* stored in full under orig/.
C19_NoOrphans ==
  \A p \in active : \A path \in DOMAIN objs :
    /\ path.sub = origdir =>
         Cardinality({i \in DOMAIN View(p).Entries :
                        View(p).Entries[i].fileId = path.name}) = 1
    /\ path.sub = thumbdir =>
         \E r \in Range(View(p).Entries) :
           /\ JpgOf(r.fileId) = path.name
           /\ get_path(origdir, r.fileId) \in DOMAIN objs
           /\ Len(objs[get_path(origdir, r.fileId)]) = r.fileSize

\* The writer stored a second original and wrote its thumbnail, in part or in
\* full, before anything was committed.
C19_Witness ==
  /\ writer = 1 /\ Len(pending.Entries) = 2
  /\ \E path \in DOMAIN objs :
       /\ path.sub = thumbdir
       /\ path.name = JpgOf(pending.Entries[2].fileId)
  /\ Cardinality({path \in DOMAIN objs : path.sub = origdir}) = 2

=============================================================================
